---- MODULE Spec2Model ----
(***************************************************************************)
(* The Event Log Recorder of plw-demo: LoggerController of                 *)
(* src/src/core/logger_controller.py, as a state machine.                  *)
(*                                                                         *)
(* Representation.                                                         *)
(*   Optional[T]   a sequence of length <= 1: None is << >>, a value v is  *)
(*                 <<v>>.                                                  *)
(*   str (f"...")  a message is the sequence of the pieces the f-string    *)
(*                 joins, so a plain message m is <<m>>.  The emoji that   *)
(*                 start the standard prefixes are left out of the pieces. *)
(*   dict          a function from its keys to its values.                 *)
(*   datetime      the reading of an integer clock; isoformat() keeps the  *)
(*                 order of the readings, so a timestamp is the reading.   *)
(*   stack frame   [path, lineno], path being the sequence of the path's   *)
(*                 components; inspect.stack() is a sequence of frames,    *)
(*                 the innermost first.                                    *)
(*   file path     the sequence of its components; a file's content is     *)
(*                 what was serialized into it, line by line or row by     *)
(*                 row.                                                    *)
(*   console       the sequence of the lines written to the stream the     *)
(*                 logging handlers write to (sys.stderr), each line the   *)
(*                 tuple of the parts its format joins.                    *)
(***************************************************************************)
EXTENDS Integers, Sequences, FiniteSets, TLC

VARIABLES
    test_name,        \* LoggerController.test_name
    log_entries,      \* LoggerController.log_entries
    current_step,     \* LoggerController.current_step
    test_start_time,  \* LoggerController.test_start_time
    clock,            \* what datetime.datetime.now() reads
    enable_console,   \* the enable_console argument the recorder was constructed with
    console,          \* the lines the logging handlers wrote to their stream
    fs,               \* the file system: the directories made and the files written
    ret,              \* how the last call ended: what it returned or raised
    helper,           \* HomePageAssertions: whether it has a logger, the statements left to
                      \* run, whether its last method raised, the methods run so far
    calls             \* history: the public calls made on the recorder

vars == <<test_name, log_entries, current_step, test_start_time, clock, enable_console, console,
          fs, ret, helper, calls>>

----------------------------------------------------------------------------
(* Bounds and input alphabets *)

MaxCalls == 3
MaxStepCalls == 4
MaxClock == 1
MaxPerfCalls == 2
MaxReadCalls == 3
MaxScopeCalls == 3
MaxExportCalls == 3
MaxEnvCalls == 2
MaxExampleCalls == 3
MaxConsoleCalls == 2
MaxHelperRuns == 2

TestNames == {"t1"}
Messages == {"a", "b"}
StepNames == {"", "S", "T"}

None == << >>
Some(v) == <<v>>

EmptyDict == [k \in {} |-> 0]
SampleExtra == [k \in {"k"} |-> 1]

\* an extra_data whose value is a Python tuple, (1, 2).  The values of the model
\* carry no run-time type, so the type json dispatches on is read off the key:
\* TupleKeys are the keys under which the alphabets put a tuple.
TupleExtra == [k \in {"size"} |-> [tuple |-> <<1, 2>>]]
TupleKeys == {"size"}

\* (message, extra_data) pairs given to the five level emitters
LogInputs == {<<"a", None>>, <<"b", Some(SampleExtra)>>}

\* extra_data arguments given to log_performance: none, a key of the caller's
\* own, and the two keys log_performance sets itself
PerfExtras ==
    {None,
     Some([k \in {"posts_count"} |-> 3]),
     Some([k \in {"action"} |-> "other"]),
     Some([k \in {"duration_seconds"} |-> 9])}

\* step_name arguments given to get_logs_by_step
StepQueries == {None, Some(""), Some("S")}

\* (file_path, format_type) pairs given to export_logs_to_file
WritablePath == <<"test-results", "logs", "t1.log">>
UnwritablePath == <<"proc", "logs", "t1.log">>
ExportFormats == {"json", "JSON", "txt", "TXT", "csv", "CSV", "text", "xml"}
ExportInputs == {<<WritablePath, f>> : f \in ExportFormats} \cup {<<UnwritablePath, "json">>}

\* the faults a scope holding the recorder ends with
Faults == {[type |-> "ValueError", value |-> "boom"]}

\* the frames of the test code that calls the recorder
CallerStack == <<[path |-> <<"examples", "test_with_logging_examples.py">>, lineno |-> 22]>>

\* the stack where inspect.stack() raises instead of returning the frames
NoStack == <<[path |-> <<"inspect.stack() raises">>, lineno |-> 0]>>

\* the environment of a call: the stack of the caller and whether the stream of
\* the logging handlers can be written
NormalEnv == [stack |-> CallerStack, stream |-> TRUE]

\* the environments a call can meet: inspect.stack() works or raises, the
\* stream can be written or not
Envs == {[stack |-> stack, stream |-> stream] : stack \in {CallerStack, NoStack}, stream \in BOOLEAN}

----------------------------------------------------------------------------
(* Python helpers *)

\* bool(x) of an Optional[str]: None and "" are falsy
Truthy(opt) == opt # None /\ opt[1] # ""

\* bool(d) of an Optional[dict]: None and {} are falsy
TruthyDict(opt) == opt # None /\ DOMAIN opt[1] # {}

\* d.update(e)
DictUpdate(d, e) == [k \in (DOMAIN d) \cup (DOMAIN e) |-> IF k \in DOMAIN e THEN e[k] ELSE d[k]]

Last(s) == s[Len(s)]

\* how a call ends
Returned(v) == [kind |-> "return", value |-> v]
Raised(e) == [kind |-> "raise", value |-> e]

IsPrefix(s, t) == Len(s) <= Len(t) /\ SubSeq(t, 1, Len(s)) = s

----------------------------------------------------------------------------
(* LogLevel and the recorder *)

LogLevel == {"DEBUG", "INFO", "WARNING", "ERROR", "CRITICAL"}

\* the recorder object
self == [test_name |-> test_name, log_entries |-> log_entries,
         current_step |-> current_step, test_start_time |-> test_start_time]

RecorderFile == <<"src", "core", "logger_controller.py">>

\* the stack inside a callee: its own frame pushed on the caller's
Push(lineno, stack) ==
    IF stack = NoStack THEN NoStack ELSE <<[path |-> RecorderFile, lineno |-> lineno]>> \o stack

\* LoggerController.__init__
Construct(name, now) ==
    [test_name |-> name, log_entries |-> << >>, current_step |-> None, test_start_time |-> now]

\* _get_caller_info answering with the innermost frame it finds when it does
\* not find the frame at skip_frames
_get_caller_info_innermost(stack, skip_frames) ==
    LET inspect_stack == Push(78, stack)
    IN IF inspect_stack # NoStack /\ Len(inspect_stack) > skip_frames
       THEN LET frame == inspect_stack[skip_frames + 1]
            IN <<Last(frame.path), frame.lineno>>
       ELSE <<Last(RecorderFile), 78>>

\* LoggerController._get_caller_info: stack is the stack of its caller; the
\* frame at index skip_frames of inspect.stack(), as "basename:lineno"
_get_caller_info(stack, skip_frames) ==
    LET inspect_stack == Push(78, stack)
    IN IF inspect_stack # NoStack /\ Len(inspect_stack) > skip_frames
       THEN LET frame == inspect_stack[skip_frames + 1]
            IN <<Last(frame.path), frame.lineno>>
       ELSE <<"unknown", 0>>

\* _log inserting the entry at the front of the list
_log_insert_first(r, level, message, extra_data, skip_frames, now, stack) ==
    LET log_entry == [timestamp |-> now,
                      level |-> level,
                      message |-> message,
                      test_name |-> r.test_name,
                      caller_info |-> _get_caller_info(Push(130, stack), skip_frames),
                      step_name |-> r.current_step,
                      extra_data |-> IF TruthyDict(extra_data) THEN extra_data[1] ELSE EmptyDict]
    IN [r EXCEPT !.log_entries = <<log_entry>> \o r.log_entries]

\* _log stamping the entry with the time left on the clock
_log_time_left(r, level, message, extra_data, skip_frames, now, stack) ==
    LET log_entry == [timestamp |-> MaxClock - now,
                      level |-> level,
                      message |-> message,
                      test_name |-> r.test_name,
                      caller_info |-> _get_caller_info(Push(130, stack), skip_frames),
                      step_name |-> r.current_step,
                      extra_data |-> IF TruthyDict(extra_data) THEN extra_data[1] ELSE EmptyDict]
    IN [r EXCEPT !.log_entries = Append(r.log_entries, log_entry)]

\* LoggerController._log: stack is the stack of its caller (the public method's
\* frame first); the result is the recorder with the entry appended
_log(r, level, message, extra_data, skip_frames, now, stack) ==
    LET caller_info == _get_caller_info(Push(130, stack), skip_frames)
        log_entry == [timestamp |-> now,
                      level |-> level,
                      message |-> message,
                      test_name |-> r.test_name,
                      caller_info |-> caller_info,
                      step_name |-> r.current_step,
                      extra_data |-> IF TruthyDict(extra_data) THEN extra_data[1] ELSE EmptyDict]
    IN [r EXCEPT !.log_entries = Append(r.log_entries, log_entry)]

\* set_current_step logging the marker before it sets the step
set_current_step_log_first(r, step_name, now, stack) ==
    [_log(r, "INFO", <<"=== Starting Step: ", step_name, " ===">>, None, 3, now, Push(162, stack))
        EXCEPT !.current_step = Some(step_name)]

\* set_current_step completing the step it replaces
set_current_step_completing(r, step_name, now, stack) ==
    LET ended == IF Truthy(r.current_step)
                 THEN _log(r, "INFO", <<"=== Completed Step: ", r.current_step[1], " ===">>,
                           None, 3, now, Push(162, stack))
                 ELSE r
    IN _log([ended EXCEPT !.current_step = Some(step_name)], "INFO",
            <<"=== Starting Step: ", step_name, " ===">>, None, 3, now, Push(162, stack))

\* LoggerController.set_current_step
set_current_step(r, step_name, now, stack) ==
    _log([r EXCEPT !.current_step = Some(step_name)], "INFO",
         <<"=== Starting Step: ", step_name, " ===">>, None, 3, now, Push(162, stack))

\* clear_current_step logging the marker whether or not a step is active
clear_current_step_unguarded(r, now, stack) ==
    [_log(r, "INFO", <<"=== Completed Step: ", r.current_step, " ===">>, None, 3, now, Push(167, stack))
        EXCEPT !.current_step = None]

\* clear_current_step clearing the step before it logs the marker
clear_current_step_clear_first(r, now, stack) ==
    IF Truthy(r.current_step)
    THEN _log([r EXCEPT !.current_step = None], "INFO",
              <<"=== Completed Step: ", r.current_step[1], " ===">>, None, 3, now, Push(167, stack))
    ELSE [r EXCEPT !.current_step = None]

\* LoggerController.clear_current_step
clear_current_step(r, now, stack) ==
    LET logged == IF Truthy(r.current_step)
                  THEN _log(r, "INFO", <<"=== Completed Step: ", r.current_step[1], " ===">>,
                            None, 3, now, Push(167, stack))
                  ELSE r
    IN [logged EXCEPT !.current_step = None]

\* LoggerController.info
info(r, message, extra_data, now, stack) ==
    _log(r, "INFO", <<message>>, extra_data, 3, now, Push(178, stack))

\* LoggerController.debug
debug(r, message, extra_data, now, stack) ==
    _log(r, "DEBUG", <<message>>, extra_data, 3, now, Push(184, stack))

\* LoggerController.warning
warning(r, message, extra_data, now, stack) ==
    _log(r, "WARNING", <<message>>, extra_data, 3, now, Push(190, stack))

\* LoggerController.error
error(r, message, extra_data, now, stack) ==
    _log(r, "ERROR", <<message>>, extra_data, 3, now, Push(196, stack))

\* LoggerController.critical
critical(r, message, extra_data, now, stack) ==
    _log(r, "CRITICAL", <<message>>, extra_data, 3, now, Push(202, stack))

\* log_assertion logging a failed assertion at INFO
log_assertion_always_info(r, message, passed, extra_data, now, stack) ==
    _log(r, "INFO", <<IF passed THEN "PASSED" ELSE "FAILED", " ASSERTION: ", message>>,
         extra_data, 3, now, Push(219, stack))

\* LoggerController.log_assertion
log_assertion(r, message, passed, extra_data, now, stack) ==
    LET status == IF passed THEN "PASSED" ELSE "FAILED"
        full_message == <<status, " ASSERTION: ", message>>
        level == IF passed THEN "INFO" ELSE "ERROR"
    IN _log(r, level, full_message, extra_data, 3, now, Push(219, stack))

\* LoggerController.log_action
log_action(r, action, extra_data, now, stack) ==
    _log(r, "INFO", <<"ACTION: ", action>>, extra_data, 3, now, Push(225, stack))

\* LoggerController.log_screenshot
log_screenshot(r, screenshot_path, description, now, stack) ==
    _log(r, "INFO", <<"SCREENSHOT: ", description, " - ", screenshot_path>>,
         Some([k \in {"screenshot_path"} |-> screenshot_path]), 3, now, Push(232, stack))

\* f"{duration_seconds:.2f}" of a duration given in milliseconds: the whole
\* seconds and the hundredths (a tie, which the float's binary value decides in
\* Python, is rounded up here)
Format2f(ms) ==
    LET hundredths == (ms + 5) \div 10
    IN <<hundredths \div 100, hundredths % 100>>

\* LoggerController.log_performance: duration_seconds in milliseconds
log_performance(r, action, duration_seconds, extra_data, now, stack) ==
    LET message == <<"PERFORMANCE: ", action, " took ", Format2f(duration_seconds), "s">>
        base == [k \in {"duration_seconds", "action"} |->
                    IF k = "action" THEN action ELSE duration_seconds]
        perf_data == IF TruthyDict(extra_data) THEN DictUpdate(base, extra_data[1]) ELSE base
    IN _log(r, "INFO", message, Some(perf_data), 3, now, Push(247, stack))

\* LoggerController.step_passed
step_passed(r, step_name, message, now, stack) ==
    _log(r, "INFO", <<"STEP PASSED: ", step_name, " - ", message>>, None, 3, now, Push(251, stack))

\* step_failed ending the active step
step_failed_clearing(r, step_name, message, now, stack) ==
    [_log(r, "ERROR", <<"STEP FAILED: ", step_name, " - ", message>>, None, 3, now, Push(257, stack))
        EXCEPT !.current_step = None]

\* LoggerController.step_failed
step_failed(r, step_name, message, now, stack) ==
    _log(r, "ERROR", <<"STEP FAILED: ", step_name, " - ", message>>, None, 3, now, Push(257, stack))

\* the parameters of step_failed after self
step_failed_params == <<"step_name", "message">>

\* LoggerController.step_skipped
step_skipped(r, step_name, message, now, stack) ==
    _log(r, "WARNING", <<"STEP SKIPPED: ", step_name, " - ", message>>, None, 3, now, Push(263, stack))

\* get_logs_by_level taking CRITICAL entries for ERROR ones
get_logs_by_level_error_or_critical(r, level) ==
    SelectSeq(r.log_entries,
              LAMBDA entry: entry.level = level \/ (level = "ERROR" /\ entry.level = "CRITICAL"))

\* LoggerController.get_logs_by_level
get_logs_by_level(r, level) ==
    SelectSeq(r.log_entries, LAMBDA entry: entry.level = level)

\* LoggerController.get_logs_by_step: step_name is the argument as given, an
\* Optional[str]
get_logs_by_step(r, step_name) ==
    SelectSeq(r.log_entries, LAMBDA entry: entry.step_name = step_name)

\* LoggerController.get_error_logs
get_error_logs(r) ==
    SelectSeq(r.log_entries, LAMBDA entry: entry.level \in {"ERROR", "CRITICAL"})

\* str.lower() on the level names and the format strings
lower(str) ==
    CASE str = "DEBUG" -> "debug"
      [] str = "INFO" -> "info"
      [] str = "WARNING" -> "warning"
      [] str = "ERROR" -> "error"
      [] str = "CRITICAL" -> "critical"
      [] str \in {"JSON", "Json"} -> "json"
      [] str \in {"TXT", "Txt"} -> "txt"
      [] str \in {"TEXT", "Text"} -> "text"
      [] str \in {"CSV", "Csv"} -> "csv"
      [] str \in {"XML", "Xml"} -> "xml"
      [] OTHER -> str

\* d.get(key, default)
DictGet(d, key, default) == IF key \in DOMAIN d THEN d[key] ELSE default

\* get_test_summary counting the ERROR entries alone as errors
get_test_summary_error_only(r, now) ==
    LET logs_by_level == [k \in {lower(level) : level \in LogLevel} |->
                            Len(get_logs_by_level(r, CHOOSE level \in LogLevel : lower(level) = k))]
        error_count == DictGet(logs_by_level, "error", 0)
    IN [test_name |-> r.test_name,
        start_time |-> r.test_start_time,
        duration_seconds |-> now - r.test_start_time,
        total_log_entries |-> Len(r.log_entries),
        logs_by_level |-> logs_by_level,
        has_errors |-> error_count > 0,
        error_count |-> error_count,
        current_step |-> r.current_step]

\* get_test_summary counting the levels from the entries, so that a level
\* without entries has no count
get_test_summary_levels_seen(r, now) ==
    LET logs_by_level == [k \in {lower(r.log_entries[i].level) : i \in 1..Len(r.log_entries)} |->
                            Len(get_logs_by_level(r, CHOOSE level \in LogLevel : lower(level) = k))]
        error_count == DictGet(logs_by_level, "error", 0) + DictGet(logs_by_level, "critical", 0)
    IN [test_name |-> r.test_name,
        start_time |-> r.test_start_time,
        duration_seconds |-> now - r.test_start_time,
        total_log_entries |-> Len(r.log_entries),
        logs_by_level |-> logs_by_level,
        has_errors |-> error_count > 0,
        error_count |-> error_count,
        current_step |-> r.current_step]

\* LoggerController.get_test_summary: the start time as its clock reading, the
\* duration in clock units
get_test_summary(r, now) ==
    LET total_logs == Len(r.log_entries)
        logs_by_level == [k \in {lower(level) : level \in LogLevel} |->
                            Len(get_logs_by_level(r, CHOOSE level \in LogLevel : lower(level) = k))]
        error_count == DictGet(logs_by_level, "error", 0) + DictGet(logs_by_level, "critical", 0)
        test_duration == now - r.test_start_time
    IN [test_name |-> r.test_name,
        start_time |-> r.test_start_time,
        duration_seconds |-> test_duration,
        total_log_entries |-> total_logs,
        logs_by_level |-> logs_by_level,
        has_errors |-> error_count > 0,
        error_count |-> error_count,
        current_step |-> r.current_step]

\* None as JSON's null
JsonNull == [json |-> "null"]

\* json.dumps of an Optional[str]: null or a JSON string
JsonOptional(opt) == IF opt = None THEN JsonNull ELSE [json |-> "string", value |-> opt[1]]

\* json.dumps of a value of a dict: a tuple becomes an array, a number or a
\* string the JSON number or string of the same value
JsonValue(key, value) == IF key \in TupleKeys THEN [array |-> value.tuple] ELSE value

\* json.dumps of a dict with str keys, as a JSON object
JsonObject(d) == [key \in DOMAIN d |-> JsonValue(key, d[key])]

\* json.dumps of a dict: its text, which is no Python value of the recorder
json_dumps(d) == [json |-> JsonObject(d)]

\* LogEntry.to_dict as json.dump writes it
EntryToJson(entry) ==
    [entry EXCEPT !.step_name = JsonOptional(entry.step_name),
                  !.extra_data = JsonObject(entry.extra_data)]

\* the lines of the parts, one part after the other
RECURSIVE Flatten(_)
Flatten(parts) == IF parts = << >> THEN << >> ELSE Head(parts) \o Flatten(Tail(parts))

\* os.path.dirname
dirname(file_path) == SubSeq(file_path, 1, Len(file_path) - 1)

\* the roots under which no directory or file can be made
UnwritableRoots == {"proc"}

\* export_logs_to_file, the "json" branch: what json.dump writes
ExportJson(r, now) ==
    [test_summary |-> [get_test_summary(r, now) EXCEPT !.current_step = JsonOptional(r.current_step)],
     log_entries |-> [i \in 1..Len(r.log_entries) |-> EntryToJson(r.log_entries[i])]]

\* export_logs_to_file, the "txt" branch: the lines written; the empty string
\* of step_info and caller_info is the f-string of no pieces
ExportTxtEntry(entry) ==
    LET step_info == IF Truthy(entry.step_name) THEN <<"[", entry.step_name[1], "] ">> ELSE << >>
        caller_info == IF entry.caller_info # << >> THEN <<" (", entry.caller_info, ")">> ELSE << >>
    IN <<<<entry.timestamp, " - ", entry.level, caller_info, " - ", step_info, entry.message>>>>
       \o (IF DOMAIN entry.extra_data # {} THEN <<<<"    Extra Data: ", entry.extra_data>>>> ELSE << >>)
       \o << << >> >>

ExportTxt(r) ==
    << <<"Test Log Report: ", r.test_name>>, <<"=", 50>>, << >> >>
    \o Flatten([i \in 1..Len(r.log_entries) |-> ExportTxtEntry(r.log_entries[i])])

\* export_logs_to_file, the "csv" branch: the rows written
CsvHeader == <<"Timestamp", "Level", "Test Name", "Caller Info", "Step Name", "Message", "Extra Data">>

\* the csv row with str(entry.step_name) for its Step Name cell
ExportCsvRow_str_step(entry) ==
    <<entry.timestamp, entry.level, entry.test_name, entry.caller_info,
      IF entry.step_name = None THEN "None" ELSE entry.step_name[1],
      entry.message,
      IF DOMAIN entry.extra_data # {} THEN json_dumps(entry.extra_data) ELSE "">>

ExportCsvRow(entry) ==
    <<entry.timestamp, entry.level, entry.test_name, entry.caller_info,
      IF Truthy(entry.step_name) THEN entry.step_name[1] ELSE "",
      entry.message,
      IF DOMAIN entry.extra_data # {} THEN json_dumps(entry.extra_data) ELSE "">>

ExportCsv(r) == <<CsvHeader>> \o [i \in 1..Len(r.log_entries) |-> ExportCsvRow(r.log_entries[i])]

\* export_logs_to_file comparing format_type as given, without lower()
export_logs_to_file_case_sensitive(r, files, file_path, format_type, now) ==
    LET dir == dirname(file_path)
        made == IF dir # << >>
                THEN [files EXCEPT !.dirs = @ \cup {SubSeq(dir, 1, n) : n \in 1..Len(dir)}]
                ELSE files
        Written(content) ==
            [made EXCEPT !.files = [p \in DOMAIN made.files \cup {file_path} |->
                                      IF p = file_path THEN content ELSE made.files[p]]]
    IN IF file_path[1] \in UnwritableRoots
       THEN [self |-> r, fs |-> files, result |-> Raised("OSError")]
       ELSE [self |-> r,
             fs |-> CASE format_type = "json" -> Written(ExportJson(r, now))
                      [] format_type = "txt" -> Written(ExportTxt(r))
                      [] format_type = "csv" -> Written(ExportCsv(r))
                      [] OTHER -> made,
             result |-> Returned(file_path)]

\* export_logs_to_file emptying the recorder once the report is written
export_logs_to_file_flushing(r, files, file_path, format_type, now) ==
    IF file_path[1] \in UnwritableRoots
    THEN [self |-> r, fs |-> files, result |-> Raised("OSError")]
    ELSE [self |-> [r EXCEPT !.log_entries = << >>],
          fs |-> [files EXCEPT !.files = [p \in DOMAIN files.files \cup {file_path} |->
                                            IF p = file_path THEN ExportCsv(r) ELSE files.files[p]]],
          result |-> Returned(file_path)]

\* LoggerController.export_logs_to_file: the recorder, the file system and the
\* result after the call
export_logs_to_file(r, files, file_path, format_type, now) ==
    LET dir == dirname(file_path)
        made == IF dir # << >>
                THEN [files EXCEPT !.dirs = @ \cup {SubSeq(dir, 1, n) : n \in 1..Len(dir)}]
                ELSE files
        Written(content) ==
            [made EXCEPT !.files = [p \in DOMAIN made.files \cup {file_path} |->
                                      IF p = file_path THEN content ELSE made.files[p]]]
    IN IF file_path[1] \in UnwritableRoots
       THEN [self |-> r, fs |-> files, result |-> Raised("OSError")]
       ELSE [self |-> r,
             fs |-> CASE lower(format_type) = "json" -> Written(ExportJson(r, now))
                      [] lower(format_type) = "txt" -> Written(ExportTxt(r))
                      [] lower(format_type) = "csv" -> Written(ExportCsv(r))
                      [] OTHER -> made,
             result |-> Returned(file_path)]

\* __exit__ logging the summary on a normal exit alone
__exit___summary_unless_fault(r, exc, now, stack) ==
    IF exc # None
    THEN critical(r, <<"Test failed with exception: ", exc[1].type, ": ", exc[1].value>>,
                  None, now, Push(401, stack))
    ELSE info(r, <<"Test completed. Duration: ", Format2f(get_test_summary(r, now).duration_seconds),
                   "s, Total logs: ", get_test_summary(r, now).total_log_entries,
                   ", Errors: ", get_test_summary(r, now).error_count>>,
              None, now, Push(405, stack))

\* __exit__ taking the summary before it logs the fault
__exit___summary_first(r, exc, now, stack) ==
    LET summary == get_test_summary(r, now)
        failed == IF exc # None
                  THEN critical(r, <<"Test failed with exception: ", exc[1].type, ": ", exc[1].value>>,
                                None, now, Push(401, stack))
                  ELSE r
    IN info(failed,
            <<"Test completed. Duration: ", Format2f(summary.duration_seconds),
              "s, Total logs: ", summary.total_log_entries,
              ", Errors: ", summary.error_count>>,
            None, now, Push(405, stack))

\* LoggerController.__exit__: exc is the fault the scope ended with, if any
__exit__(r, exc, now, stack) ==
    LET failed == IF exc # None
                  THEN critical(r, <<"Test failed with exception: ", exc[1].type, ": ", exc[1].value>>,
                                None, now, Push(401, stack))
                  ELSE r
        summary == get_test_summary(failed, now)
    IN info(failed,
            <<"Test completed. Duration: ", Format2f(summary.duration_seconds),
              "s, Total logs: ", summary.total_log_entries,
              ", Errors: ", summary.error_count>>,
            None, now, Push(405, stack))

\* clear_logs leaving the active step set
clear_logs_keeping_step(r, now) ==
    [r EXCEPT !.log_entries = << >>, !.test_start_time = now]

\* LoggerController.clear_logs
clear_logs(r, now) ==
    [r EXCEPT !.log_entries = << >>, !.current_step = None, !.test_start_time = now]

----------------------------------------------------------------------------
(* The console: self.logger and its handlers *)

\* the numeric value the logging module gives a level name
LevelNo(level) ==
    CASE level = "DEBUG" -> 10
      [] level = "INFO" -> 20
      [] level = "WARNING" -> 30
      [] level = "ERROR" -> 40
      [] level = "CRITICAL" -> 50

\* self.logger.handlers after __init__: cleared, then the console handler
\* _setup_console_handler adds, at level INFO, when enable_console
Handlers(enabled) == IF enabled THEN <<[level |-> "INFO"]>> ELSE << >>

\* the level of logging.lastResort, the handler the logging module falls back
\* on for a record that finds no handler
LastResortLevel == "WARNING"

\* CallerFormatter.format: "%(asctime)s - %(name_with_caller)s - %(levelname)s -
\* %(message)s" of the record _log makes of the entry
CallerFormat(entry) ==
    <<entry.timestamp, " - ", <<"TestLogger.", entry.test_name, ":", entry.caller_info>>,
      " - ", entry.level, " - ", entry.message>>

\* self.logger.handle(log_record): the lines the handlers write for the entry.
\* The logger is at level DEBUG, each handler writes the records at or above
\* its own level, and a record that finds no handler goes to lastResort, which
\* writes the bare message.
handle(entry, enabled) ==
    IF Handlers(enabled) = << >>
    THEN IF LevelNo(entry.level) >= LevelNo(LastResortLevel) THEN <<<<entry.message>>>> ELSE << >>
    ELSE Flatten([h \in 1..Len(Handlers(enabled)) |->
                    IF LevelNo(entry.level) >= LevelNo(Handlers(enabled)[h].level)
                    THEN <<CallerFormat(entry)>> ELSE << >>])

\* StreamHandler.emit for each of the entries in turn: a write that fails is
\* caught there (Handler.handleError) and the line is lost
Emit(entries, enabled, stream) ==
    IF stream THEN Flatten([i \in 1..Len(entries) |-> handle(entries[i], enabled)]) ELSE << >>

----------------------------------------------------------------------------
(* HomePageAssertions of tests/test_home_page_posts/assertions.py: each verify
   method is the sequence of its log_assertion calls and assert statements, in
   the order of the source *)

AssertionsFile == <<"tests", "test_home_page_posts", "assertions.py">>

\* the fields of the PostItem objects HomePage.get_all_posts returns
PostItemFields == {"title", "image_url", "created_date", "element", "author", "content"}

\* self.logger.log_assertion(message, passed) at the given line
LogStmt(message, passed, lineno) ==
    [lineno |-> lineno, message |-> message, passed |-> passed, stmt |-> "log"]

\* assert passed, at the given line
AssertStmt(message, passed, lineno) ==
    [lineno |-> lineno, message |-> message, passed |-> passed, stmt |-> "assert"]

\* the attribute check of the loop of verify_displayed_posts_number: the assert
\* statement, then the log_assertion call; hasattr holds for every field of
\* PostItem
AttrCheck(attr) ==
    LET attr_check_passed == attr \in PostItemFields
        message == <<"All posts have a '", attr, "' attribute.">>
    IN <<AssertStmt(message, attr_check_passed, 113),
         LogStmt(message, attr_check_passed, 117)>>

\* HomePageAssertions.verify_displayed_posts_number, actual_count posts being
\* visible
verify_displayed_posts_number(expected_count, actual_count) ==
    LET message == <<"Expected ", expected_count, " posts, found ", actual_count>>
    IN <<LogStmt(message, actual_count = expected_count, 98),
         AssertStmt(message, actual_count = expected_count, 103)>>
       \o AttrCheck("title") \o AttrCheck("image_url") \o AttrCheck("created_date")

\* HomePageAssertions.verify_navigate_to_post_detail_successfully, the titles
\* being the normalized ones
verify_navigate_to_post_detail_successfully(normalized_expected, normalized_actual) ==
    LET message == <<"Expected post title: '", normalized_expected,
                     "', Actual post title: '", normalized_actual, "'">>
    IN <<LogStmt(message, normalized_expected = normalized_actual, 158),
         AssertStmt(message, normalized_expected = normalized_actual, 163)>>

\* HomePageAssertions.verify_the_current_page_number
verify_the_current_page_number(expected_number, actual_page_number) ==
    LET message == <<"Expected current page number: ", expected_number,
                     ", Actual current page number: ", actual_page_number>>
    IN <<LogStmt(message, actual_page_number = expected_number, 193),
         AssertStmt(message, actual_page_number = expected_number, 198)>>

----------------------------------------------------------------------------
(* The state machine: one action per public call *)

\* the state after LoggerController(name, enable_console)
Constructed(enabled) ==
    /\ clock = 0
    /\ \E name \in TestNames :
          LET r == Construct(name, 0)
          IN /\ test_name = r.test_name
             /\ log_entries = r.log_entries
             /\ current_step = r.current_step
             /\ test_start_time = r.test_start_time
    /\ enable_console = enabled
    /\ console = << >>
    /\ fs = [dirs |-> {}, files |-> EmptyDict]
    /\ ret = Returned(None)
    /\ helper = [logger |-> FALSE, todo |-> << >>, raised |-> FALSE, runs |-> 0]
    /\ calls = << >>

\* enable_console has the default True, which the fixture of tests/conftest.py
\* leaves in place
Init == Constructed(TRUE)

\* the recorder constructed with console output or without it
InitConsole == \E enabled \in BOOLEAN : Constructed(enabled)

\* the entries a call left behind that it did not find: those _log appended
Added(r) ==
    IF IsPrefix(log_entries, r.log_entries)
    THEN SubSeq(r.log_entries, Len(log_entries) + 1, Len(r.log_entries))
    ELSE << >>

\* The call op(arg), made in the environment env, ends with result (a value
\* returned or an exception raised), leaving the recorder as r and the file
\* system as files.  _log hands every entry it appends to self.logger.handle
\* before it returns, so the lines written are those of the entries added.  The
\* history notes the call with the active step and the number of entries it
\* found.
EndsIn(env, r, op, arg, result, files) ==
    /\ test_name' = r.test_name
    /\ log_entries' = r.log_entries
    /\ current_step' = r.current_step
    /\ test_start_time' = r.test_start_time
    /\ console' = console \o Emit(Added(r), enable_console, env.stream)
    /\ fs' = files
    /\ ret' = result
    /\ calls' = Append(calls, [op |-> op, arg |-> arg, step |-> current_step,
                               n |-> Len(log_entries), env |-> env])
    /\ UNCHANGED <<clock, enable_console>>

\* a call made by the test code, where the stack can be inspected and the
\* stream written
Ends(r, op, arg, result, files) ==
    /\ EndsIn(NormalEnv, r, op, arg, result, files)
    /\ UNCHANGED helper

\* a method without a return statement returns None
Returns(r, op, arg) == Ends(r, op, arg, Returned(None), fs)

\* an emitter returns the entry _log appended
ReturnsEntry(r, op, arg) == Ends(r, op, arg, Returned(Last(r.log_entries)), fs)

debug_call(message, extra_data) ==
    ReturnsEntry(debug(self, message, extra_data, clock, CallerStack), "debug", <<message, extra_data>>)

info_call(message, extra_data) ==
    ReturnsEntry(info(self, message, extra_data, clock, CallerStack), "info", <<message, extra_data>>)

warning_call(message, extra_data) ==
    ReturnsEntry(warning(self, message, extra_data, clock, CallerStack), "warning", <<message, extra_data>>)

error_call(message, extra_data) ==
    ReturnsEntry(error(self, message, extra_data, clock, CallerStack), "error", <<message, extra_data>>)

critical_call(message, extra_data) ==
    ReturnsEntry(critical(self, message, extra_data, clock, CallerStack), "critical", <<message, extra_data>>)

log_assertion_call(message, passed) ==
    ReturnsEntry(log_assertion(self, message, passed, None, clock, CallerStack), "log_assertion", <<message, passed>>)

log_action_call(action) ==
    ReturnsEntry(log_action(self, action, None, clock, CallerStack), "log_action", <<action>>)

log_screenshot_call(screenshot_path, description) ==
    ReturnsEntry(log_screenshot(self, screenshot_path, description, clock, CallerStack),
            "log_screenshot", <<screenshot_path, description>>)

log_performance_call(action, duration_seconds) ==
    ReturnsEntry(log_performance(self, action, duration_seconds, None, clock, CallerStack),
            "log_performance", <<action, duration_seconds>>)

log_performance_extra_call(action, duration_seconds, extra_data) ==
    ReturnsEntry(log_performance(self, action, duration_seconds, extra_data, clock, CallerStack),
                 "log_performance", <<action, duration_seconds, extra_data>>)

step_passed_call(step_name, message) ==
    ReturnsEntry(step_passed(self, step_name, message, clock, CallerStack), "step_passed", <<step_name, message>>)

step_failed_call(step_name, message) ==
    ReturnsEntry(step_failed(self, step_name, message, clock, CallerStack), "step_failed", <<step_name, message>>)

\* step_failed called with a third positional argument, as the example tests
\* call it: Python binds the arguments to the parameters before the body runs
\* and raises TypeError when there are more arguments than parameters
step_failed_extra_call(step_name, message, error_details) ==
    LET args == <<step_name, message, error_details>>
    IN IF Len(args) > Len(step_failed_params)
       THEN Ends(self, "step_failed", args, Raised("TypeError"), fs)
       ELSE ReturnsEntry(step_failed(self, step_name, message, clock, CallerStack), "step_failed", args)

step_skipped_call(step_name, message) ==
    ReturnsEntry(step_skipped(self, step_name, message, clock, CallerStack), "step_skipped", <<step_name, message>>)

set_current_step_call(step_name) ==
    Returns(set_current_step(self, step_name, clock, CallerStack), "set_current_step", <<step_name>>)

clear_current_step_call ==
    Returns(clear_current_step(self, clock, CallerStack), "clear_current_step", << >>)

clear_logs_call ==
    Returns(clear_logs(self, clock), "clear_logs", << >>)

get_logs_by_level_call(level) ==
    Ends(self, "get_logs_by_level", <<level>>, Returned(get_logs_by_level(self, level)), fs)

get_logs_by_step_call(step_name) ==
    Ends(self, "get_logs_by_step", <<step_name>>, Returned(get_logs_by_step(self, step_name)), fs)

get_error_logs_call ==
    Ends(self, "get_error_logs", << >>, Returned(get_error_logs(self)), fs)

get_test_summary_call ==
    Ends(self, "get_test_summary", << >>, Returned(get_test_summary(self, clock)), fs)

export_logs_to_file_call(file_path, format_type) ==
    LET out == export_logs_to_file(self, fs, file_path, format_type, clock)
    IN Ends(out.self, "export_logs_to_file", <<file_path, format_type>>, out.result, out.fs)

\* the calls below are made where the stack may not be inspected and the stream
\* may not be written
info_in_call(message, env) ==
    LET r == info(self, message, None, clock, env.stack)
    IN /\ EndsIn(env, r, "info", <<message, None>>, Returned(Last(r.log_entries)), fs)
       /\ UNCHANGED helper

error_in_call(message, env) ==
    LET r == error(self, message, None, clock, env.stack)
    IN /\ EndsIn(env, r, "error", <<message, None>>, Returned(Last(r.log_entries)), fs)
       /\ UNCHANGED helper

set_current_step_in_call(step_name, env) ==
    /\ EndsIn(env, set_current_step(self, step_name, clock, env.stack), "set_current_step",
              <<step_name>>, Returned(None), fs)
    /\ UNCHANGED helper

clear_current_step_in_call(env) ==
    /\ EndsIn(env, clear_current_step(self, clock, env.stack), "clear_current_step", << >>,
              Returned(None), fs)
    /\ UNCHANGED helper

\* _log called by the test code itself, with the default skip_frames: under its
\* frame there is the one frame of its caller
_log_call(level, message, env) ==
    LET r == _log(self, level, <<message>>, None, 3, clock, env.stack)
    IN /\ EndsIn(env, r, "_log", <<level, message>>, Returned(Last(r.log_entries)), fs)
       /\ UNCHANGED helper

\* HomePageAssertions(page, logger): the helper is made anew, with the recorder
\* or without one
HomePageAssertions_call(logger) ==
    /\ helper.todo = << >>
    /\ helper.runs = 0
    /\ helper.logger # logger
    /\ helper' = [helper EXCEPT !.logger = logger]
    /\ UNCHANGED <<test_name, log_entries, current_step, test_start_time, clock, enable_console,
                   console, fs, ret, calls>>

\* a verify method is called: its statements are left to run
verify_call(statements) ==
    /\ helper.todo = << >>
    /\ helper.runs < MaxHelperRuns
    /\ helper' = [helper EXCEPT !.todo = statements, !.raised = FALSE, !.runs = @ + 1]
    /\ UNCHANGED <<test_name, log_entries, current_step, test_start_time, clock, enable_console,
                   console, fs, ret, calls>>

\* if self.logger: self.logger.log_assertion(message, passed)
helper_log ==
    /\ helper.todo # << >>
    /\ Head(helper.todo).stmt = "log"
    /\ helper.logger
    /\ LET st == Head(helper.todo)
           env == [stack |-> <<[path |-> AssertionsFile, lineno |-> st.lineno]>> \o CallerStack,
                   stream |-> TRUE]
           r == log_assertion(self, st.message, st.passed, None, clock, env.stack)
       IN EndsIn(env, r, "log_assertion", <<st.message, st.passed>>,
                 Returned(Last(r.log_entries)), fs)
    /\ helper' = [helper EXCEPT !.todo = Tail(@)]

\* if self.logger: with no logger the call is skipped
helper_skip_log ==
    /\ helper.todo # << >>
    /\ Head(helper.todo).stmt = "log"
    /\ ~helper.logger
    /\ helper' = [helper EXCEPT !.todo = Tail(@)]
    /\ UNCHANGED <<test_name, log_entries, current_step, test_start_time, clock, enable_console,
                   console, fs, ret, calls>>

\* assert passed: the method goes on when it holds and ends with AssertionError
\* when it does not
helper_assert ==
    /\ helper.todo # << >>
    /\ Head(helper.todo).stmt = "assert"
    /\ helper' = IF Head(helper.todo).passed
                 THEN [helper EXCEPT !.todo = Tail(@)]
                 ELSE [helper EXCEPT !.todo = << >>, !.raised = TRUE]
    /\ UNCHANGED <<test_name, log_entries, current_step, test_start_time, clock, enable_console,
                   console, fs, ret, calls>>

\* the scope that holds the recorder ends, with the fault exc or without one;
\* __exit__ returns None, so the fault goes on to the scope's caller
exit_call(exc) ==
    Ends(__exit__(self, exc, clock, CallerStack), "__exit__", <<exc>>, Returned(None), fs)

\* time passes between two calls
Tick ==
    /\ clock < MaxClock
    /\ clock' = clock + 1
    /\ UNCHANGED <<test_name, log_entries, current_step, test_start_time, enable_console, console,
                   fs, ret, helper, calls>>

\* Every logging call and step transition, on a clock that stands still.
MayCall == Len(calls) < MaxCalls

Next ==
    \/ MayCall /\ \E i \in LogInputs : debug_call(i[1], i[2])
    \/ MayCall /\ \E i \in LogInputs : info_call(i[1], i[2])
    \/ MayCall /\ \E i \in LogInputs : warning_call(i[1], i[2])
    \/ MayCall /\ \E i \in LogInputs : error_call(i[1], i[2])
    \/ MayCall /\ \E i \in LogInputs : critical_call(i[1], i[2])
    \/ MayCall /\ \E passed \in BOOLEAN : log_assertion_call("x==y", passed)
    \/ MayCall /\ log_action_call("click")
    \/ MayCall /\ log_screenshot_call("shot.png", "home")
    \/ MayCall /\ log_performance_call("load", 1234)
    \/ MayCall /\ \E s \in StepNames : step_passed_call(s, "ok")
    \/ MayCall /\ \E s \in StepNames : step_failed_call(s, "boom")
    \/ MayCall /\ \E s \in StepNames : step_skipped_call(s, "n/a")
    \/ MayCall /\ \E s \in StepNames : set_current_step_call(s)
    \/ MayCall /\ clear_current_step_call
    \/ MayCall /\ clear_logs_call

Spec == Init /\ [][Next]_vars

\* The step transitions among plain entries, while time passes.
MayCallSteps == Len(calls) < MaxStepCalls

NextSteps ==
    \/ MayCallSteps /\ \E m \in Messages : info_call(m, None)
    \/ MayCallSteps /\ \E m \in Messages : warning_call(m, None)
    \/ MayCallSteps /\ \E s \in StepNames : set_current_step_call(s)
    \/ MayCallSteps /\ clear_current_step_call
    \/ MayCallSteps /\ clear_logs_call
    \/ Tick

SpecSteps == Init /\ [][NextSteps]_vars

\* log_performance with and without extra_data.
MayCallPerf == Len(calls) < MaxPerfCalls

NextPerf ==
    \/ MayCallPerf /\ \E a \in {"load", "nav"} : \E d \in {1234, 50} : \E x \in PerfExtras :
                        log_performance_extra_call(a, d, x)
    \/ MayCallPerf /\ \E s \in {"S"} : set_current_step_call(s)

SpecPerf == Init /\ [][NextPerf]_vars

\* The queries and the export among entries of every level.
MayCallRead == Len(calls) < MaxReadCalls

NextRead ==
    \/ MayCallRead /\ debug_call("a", None)
    \/ MayCallRead /\ info_call("a", None)
    \/ MayCallRead /\ warning_call("a", None)
    \/ MayCallRead /\ error_call("b", Some(SampleExtra))
    \/ MayCallRead /\ critical_call("a", None)
    \/ MayCallRead /\ set_current_step_call("S")
    \/ MayCallRead /\ clear_current_step_call
    \/ MayCallRead /\ \E level \in LogLevel : get_logs_by_level_call(level)
    \/ MayCallRead /\ \E q \in StepQueries : get_logs_by_step_call(q)
    \/ MayCallRead /\ get_error_logs_call
    \/ MayCallRead /\ get_test_summary_call
    \/ MayCallRead /\ \E i \in ExportInputs : export_logs_to_file_call(i[1], i[2])

SpecRead == Init /\ [][NextRead]_vars

\* The scope holding the recorder ends, normally or with a fault.
MayCallScope == Len(calls) < MaxScopeCalls

NextScope ==
    \/ MayCallScope /\ info_call("a", None)
    \/ MayCallScope /\ error_call("b", None)
    \/ MayCallScope /\ set_current_step_call("S")
    \/ MayCallScope /\ exit_call(None)
    \/ MayCallScope /\ \E exc \in Faults : exit_call(Some(exc))
    \/ Tick

SpecScope == Init /\ [][NextScope]_vars

\* The three reports of entries with and without a step and extra_data.
MayCallExport == Len(calls) < MaxExportCalls

NextExport ==
    \/ MayCallExport /\ info_call("a", None)
    \/ MayCallExport /\ warning_call("b", Some(SampleExtra))
    \/ MayCallExport /\ error_call("c", Some(TupleExtra))
    \/ MayCallExport /\ \E s \in {"", "S"} : set_current_step_call(s)
    \/ MayCallExport /\ clear_current_step_call
    \/ MayCallExport /\ \E f \in {"json", "txt", "csv"} : export_logs_to_file_call(WritablePath, f)

SpecExport == Init /\ [][NextExport]_vars

\* Logging calls and step transitions where stack inspection or the stream fail.
MayCallEnv == Len(calls) < MaxEnvCalls

NextEnv ==
    \/ MayCallEnv /\ \E env \in Envs : info_in_call("a", env)
    \/ MayCallEnv /\ \E env \in Envs : error_in_call("b", env)
    \/ MayCallEnv /\ \E env \in Envs : set_current_step_in_call("S", env)
    \/ MayCallEnv /\ \E env \in Envs : clear_current_step_in_call(env)
    \/ MayCallEnv /\ \E env \in Envs : _log_call("WARNING", "a", env)

SpecEnv == Init /\ [][NextEnv]_vars

\* The calls of the exception handlers of the example tests.
MayCallExample == Len(calls) < MaxExampleCalls

NextExample ==
    \/ MayCallExample /\ set_current_step_call("S")
    \/ MayCallExample /\ info_call("a", None)
    \/ MayCallExample /\ step_failed_call("S", "boom")
    \/ MayCallExample /\ step_failed_extra_call("S", "boom", SampleExtra)
    \/ MayCallExample /\ log_screenshot_call("shot.png", "home")
    \/ MayCallExample /\ clear_current_step_call

SpecExample == Init /\ [][NextExample]_vars

\* Every emitter on a recorder with console output and on one without it.
MayCallConsole == Len(calls) < MaxConsoleCalls

NextConsole ==
    \/ MayCallConsole /\ \E i \in LogInputs : debug_call(i[1], i[2])
    \/ MayCallConsole /\ \E i \in LogInputs : info_call(i[1], i[2])
    \/ MayCallConsole /\ \E i \in LogInputs : warning_call(i[1], i[2])
    \/ MayCallConsole /\ \E i \in LogInputs : error_call(i[1], i[2])
    \/ MayCallConsole /\ \E i \in LogInputs : critical_call(i[1], i[2])
    \/ MayCallConsole /\ set_current_step_call("S")
    \/ MayCallConsole /\ step_failed_call("S", "boom")

SpecConsole == InitConsole /\ [][NextConsole]_vars

\* The assertion helper, with the recorder and without it, on pages that meet
\* the expectation and on pages that do not.
NextHelper ==
    \/ \E logger \in BOOLEAN : HomePageAssertions_call(logger)
    \/ \E actual_count \in {0, 1} : verify_call(verify_displayed_posts_number(1, actual_count))
    \/ \E actual \in {"Post", "Other"} :
          verify_call(verify_navigate_to_post_detail_successfully("Post", actual))
    \/ \E actual_page_number \in {1, 2} :
          verify_call(verify_the_current_page_number(2, actual_page_number))
    \/ helper_log
    \/ helper_skip_log
    \/ helper_assert

SpecHelper == Init /\ [][NextHelper]_vars

----------------------------------------------------------------------------
(* Reading the history *)

\* a call was made in this step, and ThisCall is its record
Called == calls' # calls
ThisCall == Last(calls')
CalledOp(op) == Called /\ ThisCall.op = op

\* the entries this step appended
Appended == SubSeq(log_entries', Len(log_entries) + 1, Len(log_entries'))

\* the calls made since the recorder was constructed or last reset by clear_logs
SinceReset(cs) ==
    LET resets == {i \in 1..Len(cs) : cs[i].op = "clear_logs"}
    IN IF resets = {} THEN cs
       ELSE SubSeq(cs, (CHOOSE i \in resets : \A j \in resets : j <= i) + 1, Len(cs))

LevelOps == {"debug", "info", "warning", "error", "critical"}
EmitterOps == LevelOps \cup {"log_assertion", "log_action", "log_screenshot", "log_performance",
                             "step_passed", "step_failed", "step_skipped"}

\* the entries a call is said to add: one for an emitter, one for
\* set_current_step, one for clear_current_step when a step is active
SaidToAdd(c) ==
    IF c.op \in EmitterOps \cup {"set_current_step"} THEN 1
    ELSE IF c.op = "clear_current_step" /\ c.step # None THEN 1
    ELSE 0

RECURSIVE SumSaidToAdd(_)
SumSaidToAdd(cs) == IF cs = << >> THEN 0 ELSE SaidToAdd(Head(cs)) + SumSaidToAdd(Tail(cs))

StartMarker(step_name) == <<"=== Starting Step: ", step_name, " ===">>
EndMarker(step_name) == <<"=== Completed Step: ", step_name, " ===">>

----------------------------------------------------------------------------
(* Claims *)

\* C1: the number of stored entries equals the number of log-producing calls
\* made since construction (or the last reset): one per emitter call, one per
\* set_current_step, one per clear_current_step made while a step is active.
C1_EntryCount == Len(log_entries) = SumSaidToAdd(SinceReset(calls))

\* C2: entries are append-only: every call but clear_logs leaves the stored
\* entries as a prefix of the entries after it; only clear_logs removes entries.
C2_AppendOnly ==
    [][IF CalledOp("clear_logs") THEN log_entries' = << >>
       ELSE IsPrefix(log_entries, log_entries')]_vars

C2_Witness ==
    /\ Len(calls) >= 3
    /\ Last(calls).op = "clear_current_step"
    /\ Len(log_entries) = 3
    /\ Last(log_entries).message = EndMarker("S")

\* C3: an appended entry's step_name is the current_step at the moment of the
\* append (set_current_step appends after it has set the step, every other call
\* appends under the step it found), and no later call rewrites the step_name
\* of a stored entry.
C3_StepNameAtAppend ==
    [][Called /\ ThisCall.op # "clear_logs" =>
         /\ Len(log_entries') >= Len(log_entries)
         /\ \A i \in 1..Len(log_entries) : log_entries'[i].step_name = log_entries[i].step_name
         /\ \A i \in 1..Len(Appended) :
               Appended[i].step_name = IF ThisCall.op = "set_current_step"
                                       THEN Some(ThisCall.arg[1])
                                       ELSE current_step]_vars

C3_Witness ==
    /\ Len(calls) >= 2
    /\ Last(calls).op = "set_current_step"
    /\ Last(calls).step \notin {None, current_step}
    /\ Last(log_entries).step_name = current_step
    /\ log_entries[Len(log_entries) - 1].step_name = Last(calls).step

\* C4: set_current_step(name) makes name the active step and appends exactly
\* one INFO entry "Starting Step: name", whatever step was active (no
\* "Completed Step" marker for a replaced step); and clear_current_step leaves
\* no step active, so a replaced step is never restored.
C4_SetReplaces ==
    [][Called =>
         /\ ThisCall.op = "set_current_step" =>
               /\ current_step' = Some(ThisCall.arg[1])
               /\ IsPrefix(log_entries, log_entries')
               /\ Len(Appended) = 1
               /\ Appended[1].level = "INFO"
               /\ Appended[1].message = StartMarker(ThisCall.arg[1])
         /\ ThisCall.op = "clear_current_step" => current_step' = None]_vars

C4_Witness ==
    /\ Len(calls) >= 3
    /\ calls[Len(calls) - 2].op = "set_current_step"
    /\ calls[Len(calls) - 1].op = "set_current_step"
    /\ Truthy(calls[Len(calls) - 1].step)
    /\ calls[Len(calls) - 1].step # Some(calls[Len(calls) - 1].arg[1])
    /\ Last(calls).op = "clear_current_step"
    /\ current_step = None

\* C5: clear_current_step() appends the marker "Completed Step: <previous
\* step>" if and only if a step was active, whatever its name (the empty string
\* included), and leaves no step active.
C5_ClearMarker ==
    [][CalledOp("clear_current_step") =>
         /\ current_step' = None
         /\ IsPrefix(log_entries, log_entries')
         /\ IF current_step # None
            THEN /\ Len(Appended) = 1
                 /\ Appended[1].message = EndMarker(current_step[1])
            ELSE Len(Appended) = 0]_vars

\* C6: clear_current_step() called when no step is active appends nothing
\* and leaves the entries, current_step and test_start_time as they were; so
\* does a clear_current_step() that follows another one.
C6_ClearNoStepIsNoOp ==
    [][/\ CalledOp("clear_current_step")
       /\ \/ current_step = None
          \/ calls # << >> /\ Last(calls).op = "clear_current_step"
       => UNCHANGED <<test_name, log_entries, current_step, test_start_time>>]_vars

C6_Witness ==
    /\ Len(calls) >= 2
    /\ calls[Len(calls) - 1].op = "clear_current_step"
    /\ Truthy(calls[Len(calls) - 1].step)
    /\ Last(calls).op = "clear_current_step"
    /\ Last(calls).step = None
    /\ Last(calls).n = Len(log_entries)
    /\ Last(log_entries).message = EndMarker("S")
    /\ clock > test_start_time

\* C7: for a step S set once with set_current_step(S) and ended by the next
\* step transition, a clear_current_step(), get_logs_by_step(S) is exactly the
\* "Starting Step: S" marker, the entries logged while S was active and the
\* "Completed Step: S" marker, in order.
C7_StepSpan ==
    \A i \in 1..Len(calls) : \A j \in (i + 1)..Len(calls) :
        ( /\ calls[i].op = "set_current_step"
          /\ calls[j].op = "clear_current_step"
          /\ \A k \in (i + 1)..(j - 1) :
                calls[k].op \notin {"set_current_step", "clear_current_step", "clear_logs"}
          /\ \A k \in 1..Len(calls) :
                /\ calls[k].op # "clear_logs"
                /\ k # i => ~(calls[k].op = "set_current_step" /\ calls[k].arg = calls[i].arg) )
        => LET S == calls[i].arg[1]
               got == get_logs_by_step(self, Some(S))
           IN /\ Len(got) = (j - i - 1) + 2
              /\ got = SubSeq(log_entries, calls[i].n + 1, calls[j].n + 1)
              /\ got[1].message = StartMarker(S)
              /\ \A k \in (i + 1)..(j - 1) : got[k - i + 1].message = <<calls[k].arg[1]>>
              /\ Last(got).message = EndMarker(S)

\* the calls info("a"), set_current_step("S"), warning("b"),
\* clear_current_step() on a recorder constructed as "t1"
InScenario ==
    /\ test_name = "t1"
    /\ Len(calls) = 4
    /\ calls[1].op = "info" /\ calls[1].arg = <<"a", None>>
    /\ calls[2].op = "set_current_step" /\ calls[2].arg = <<"S">>
    /\ calls[3].op = "warning" /\ calls[3].arg = <<"b", None>>
    /\ calls[4].op = "clear_current_step"

\* C8, as claimed: in the scenario the recorder holds 4 entries, entry 3 ("b")
\* has step_name "S", and entries 1 and 4 have no step_name.
C8_ScenarioAsClaimed ==
    InScenario =>
        /\ Len(log_entries) = 4
        /\ log_entries[3].message = <<"b">>
        /\ log_entries[3].step_name = Some("S")
        /\ log_entries[1].step_name = None
        /\ log_entries[4].step_name = None

\* C8, amended: in the scenario the recorder holds 4 entries, entry 1 ("a") has
\* no step_name, and entries 2 (the start marker), 3 ("b") and 4 (the
\* "Completed Step: S" marker, appended before the step is cleared) have
\* step_name "S".
C8_Scenario ==
    InScenario =>
        /\ Len(log_entries) = 4
        /\ log_entries[1].message = <<"a">>
        /\ log_entries[1].step_name = None
        /\ log_entries[2].message = StartMarker("S")
        /\ log_entries[2].step_name = Some("S")
        /\ log_entries[3].message = <<"b">>
        /\ log_entries[3].step_name = Some("S")
        /\ log_entries[4].message = EndMarker("S")
        /\ log_entries[4].step_name = Some("S")
        /\ current_step = None

C8_Witness == InScenario /\ Len(log_entries) = 4 /\ clock = MaxClock

\* the severity each convenience emitter logs at
EmitterLevel(op) ==
    CASE op = "debug" -> "DEBUG"
      [] op \in {"info", "log_action", "step_passed"} -> "INFO"
      [] op \in {"warning", "step_skipped"} -> "WARNING"
      [] op \in {"error", "step_failed"} -> "ERROR"
      [] op = "critical" -> "CRITICAL"

\* C9: debug/info/warning/error/critical, log_action and
\* step_passed/step_failed/step_skipped each append exactly one entry, at
\* DEBUG/INFO/WARNING/ERROR/CRITICAL, INFO and INFO/ERROR/WARNING, and leave
\* current_step as it was, whatever step_name the step_* calls are given.
C9_Emitters ==
    [][Called /\ ThisCall.op \in LevelOps \cup {"log_action", "step_passed", "step_failed", "step_skipped"} =>
         /\ IsPrefix(log_entries, log_entries')
         /\ Len(Appended) = 1
         /\ Appended[1].level = EmitterLevel(ThisCall.op)
         /\ current_step' = current_step]_vars

C9_Witness ==
    /\ calls # << >>
    /\ Last(calls).op = "step_failed"
    /\ Truthy(current_step)
    /\ Last(calls).arg[1] = current_step[1]
    /\ Last(log_entries).level = "ERROR"
    /\ Last(log_entries).step_name = current_step

\* the failed assertions logged since construction or the last reset
FailedAssertions(cs) ==
    Cardinality({i \in 1..Len(SinceReset(cs)) :
                    SinceReset(cs)[i].op = "log_assertion" /\ ~SinceReset(cs)[i].arg[2]})

\* C10: log_assertion(message, passed) appends exactly one entry, at INFO with
\* a PASSED-marked message when passed and at ERROR with a FAILED-marked message
\* when not; so the failed assertions logged never outnumber the ERROR entries.
C10_Assertion ==
    [][/\ CalledOp("log_assertion") =>
             /\ IsPrefix(log_entries, log_entries')
             /\ Len(Appended) = 1
             /\ Appended[1].level = IF ThisCall.arg[2] THEN "INFO" ELSE "ERROR"
             /\ Appended[1].message[1] = IF ThisCall.arg[2] THEN "PASSED" ELSE "FAILED"
             /\ Appended[1].message[3] = ThisCall.arg[1]
       /\ FailedAssertions(calls') <= Len(get_logs_by_level(self', "ERROR"))]_vars

C10_Witness ==
    /\ Len(calls) >= 2
    /\ Last(calls).op = "log_assertion"
    /\ ~Last(calls).arg[2]
    /\ Last(log_entries).level = "ERROR"
    /\ Last(log_entries).message = <<"FAILED", " ASSERTION: ", "x==y">>
    /\ FailedAssertions(calls) < Len(get_logs_by_level(self, "ERROR"))

\* C11: log_performance(action, duration_seconds, extra_data) appends one INFO
\* entry whose extra_data holds the caller's keys and "duration_seconds" and
\* "action", these two with the values of the positional arguments even when
\* the caller's extra_data has a key of the same name.
C11_PerfMerge ==
    [][CalledOp("log_performance") /\ Len(ThisCall.arg) = 3 =>
         LET given == IF ThisCall.arg[3] = None THEN EmptyDict ELSE ThisCall.arg[3][1]
         IN /\ IsPrefix(log_entries, log_entries')
            /\ Len(Appended) = 1
            /\ Appended[1].level = "INFO"
            /\ DOMAIN Appended[1].extra_data = DOMAIN given \cup {"duration_seconds", "action"}
            /\ Appended[1].extra_data["action"] = ThisCall.arg[1]
            /\ Appended[1].extra_data["duration_seconds"] = ThisCall.arg[2]
            /\ \A k \in DOMAIN given \ {"duration_seconds", "action"} :
                  Appended[1].extra_data[k] = given[k]]_vars

\* the positions of the stored entries that satisfy Test
Positions(Test(_)) == {i \in 1..Len(log_entries) : Test(log_entries[i])}

\* result holds exactly the stored entries at the positions at, in their order
IsSelection(result, at) ==
    /\ Len(result) = Cardinality(at)
    /\ \A k \in 1..Len(result) :
          result[k] = log_entries[CHOOSE i \in at : Cardinality({j \in at : j <= i}) = k]

AtLevel(level) == Positions(LAMBDA entry : entry.level = level)

\* C12: for each of the five levels get_logs_by_level returns exactly the
\* stored entries of that level, in their order; no entry is in the results of
\* two levels, and the five lengths sum to the number of stored entries.
C12_ByLevel ==
    /\ \A level \in LogLevel : IsSelection(get_logs_by_level(self, level), AtLevel(level))
    /\ \A l1 \in LogLevel : \A l2 \in LogLevel \ {l1} :
          \A k \in 1..Len(get_logs_by_level(self, l1)) : get_logs_by_level(self, l1)[k].level # l2
    /\ Len(get_logs_by_level(self, "DEBUG")) + Len(get_logs_by_level(self, "INFO"))
       + Len(get_logs_by_level(self, "WARNING")) + Len(get_logs_by_level(self, "ERROR"))
       + Len(get_logs_by_level(self, "CRITICAL")) = Len(log_entries)
    /\ calls # << >> /\ Last(calls).op = "get_logs_by_level" =>
          IsSelection(ret.value, AtLevel(Last(calls).arg[1]))

C12_Witness ==
    /\ Len(calls) = 3
    /\ Last(calls).op = "get_logs_by_level"
    /\ Last(calls).arg = <<"ERROR">>
    /\ Len(log_entries) = 2
    /\ log_entries[1].level = "ERROR"
    /\ log_entries[2].level = "CRITICAL"
    /\ ret.value = <<log_entries[1]>>

\* C13: get_logs_by_step returns exactly the stored entries whose step label
\* equals its argument, in their order, and never an entry recorded while no
\* step was active, whatever the argument (None included).
C13_ByStep ==
    calls # << >> /\ Last(calls).op = "get_logs_by_step" =>
        /\ IsSelection(ret.value, Positions(LAMBDA entry : entry.step_name = Last(calls).arg[1]))
        /\ \A k \in 1..Len(ret.value) : ret.value[k].step_name # None

\* the lower-case key of each level in the summary's logs_by_level
LevelKeys ==
    {<<"DEBUG", "debug">>, <<"INFO", "info">>, <<"WARNING", "warning">>,
     <<"ERROR", "error">>, <<"CRITICAL", "critical">>}

\* C14: get_error_logs returns exactly the ERROR and CRITICAL entries, in
\* their order, and get_test_summary agrees with it: error_count is its length
\* and has_errors says whether it is non-empty.
C14_ErrorLogs ==
    /\ IsSelection(get_error_logs(self), AtLevel("ERROR") \cup AtLevel("CRITICAL"))
    /\ get_test_summary(self, clock).error_count = Len(get_error_logs(self))
    /\ get_test_summary(self, clock).has_errors <=> get_error_logs(self) # << >>
    /\ calls # << >> /\ Last(calls).op = "get_error_logs" =>
          IsSelection(ret.value, AtLevel("ERROR") \cup AtLevel("CRITICAL"))
    /\ calls # << >> /\ Last(calls).op = "get_test_summary" =>
          /\ ret.value.error_count = Cardinality(AtLevel("ERROR") \cup AtLevel("CRITICAL"))
          /\ ret.value.has_errors <=> AtLevel("ERROR") \cup AtLevel("CRITICAL") # {}

C14_Witness ==
    /\ Len(calls) = 3
    /\ Last(calls).op = "get_test_summary"
    /\ Len(log_entries) = 2
    /\ log_entries[1].level = "CRITICAL"
    /\ log_entries[2].level = "ERROR"
    /\ ret.value.error_count = 2
    /\ ret.value.has_errors

\* C15: get_test_summary reports the number of stored entries, a count for
\* each of the five levels (zero included) equal to the number of stored
\* entries of that level, the recorder's test name and the active step.
C15_Summary ==
    LET summary == IF calls # << >> /\ Last(calls).op = "get_test_summary"
                   THEN ret.value ELSE get_test_summary(self, clock)
    IN /\ summary.total_log_entries = Len(log_entries)
       /\ DOMAIN summary.logs_by_level = {lk[2] : lk \in LevelKeys}
       /\ \A lk \in LevelKeys : summary.logs_by_level[lk[2]] = Cardinality(AtLevel(lk[1]))
       /\ summary.test_name = test_name
       /\ summary.current_step = current_step

C15_Witness ==
    /\ Len(calls) = 3
    /\ Last(calls).op = "get_test_summary"
    /\ current_step = Some("S")
    /\ ret.value.current_step = Some("S")
    /\ ret.value.total_log_entries = 2
    /\ ret.value.logs_by_level["info"] = 1
    /\ ret.value.logs_by_level["warning"] = 1
    /\ ret.value.logs_by_level["debug"] = 0

ReadOps == {"get_logs_by_level", "get_logs_by_step", "get_error_logs", "get_test_summary",
            "export_logs_to_file"}

\* C16: get_logs_by_level, get_logs_by_step, get_error_logs, get_test_summary
\* and export_logs_to_file leave the entries, current_step and test_start_time
\* as they were, whatever their arguments.
C16_ReadOnly ==
    [][Called /\ ThisCall.op \in ReadOps =>
         UNCHANGED <<test_name, log_entries, current_step, test_start_time>>]_vars

C16_Witness ==
    /\ Len(calls) = 3
    /\ Last(calls).op = "export_logs_to_file"
    /\ Last(calls).arg = <<WritablePath, "csv">>
    /\ ret = Returned(WritablePath)
    /\ WritablePath \in DOMAIN fs.files
    /\ Len(log_entries) = 2
    /\ current_step = Some("S")

\* C17: clear_logs(), in any state, leaves no entries (so no marker for a
\* step that was active), no active step and the start time at the current
\* moment: the recorder is as a new one constructed now with the same test
\* name, and its summary reports no entries, no errors and no step.
C17_ClearLogs ==
    [][CalledOp("clear_logs") =>
         /\ log_entries' = << >>
         /\ current_step' = None
         /\ test_start_time' = clock
         /\ self' = Construct(test_name, clock)
         /\ get_test_summary(self', clock').total_log_entries = 0
         /\ get_test_summary(self', clock').error_count = 0
         /\ ~get_test_summary(self', clock').has_errors
         /\ get_test_summary(self', clock').current_step = None]_vars

C17_Witness ==
    /\ calls # << >>
    /\ Last(calls).op = "clear_logs"
    /\ Last(calls).step = Some("S")
    /\ Last(calls).n >= 2
    /\ log_entries = << >>
    /\ current_step = None
    /\ test_start_time = clock
    /\ clock > 0

\* C18: when the scope holding the recorder ends, the INFO summary entry is
\* appended as the last entry; after a fault the CRITICAL entry describing it
\* is appended just before (two entries), on a normal exit the summary alone.
C18_ScopeExit ==
    [][CalledOp("__exit__") =>
         /\ IsPrefix(log_entries, log_entries')
         /\ Len(Appended) >= 1
         /\ Last(log_entries').level = "INFO"
         /\ Last(log_entries').message[1][1] = "Test completed. Duration: "
         /\ IF ThisCall.arg[1] # None
            THEN /\ Len(Appended) = 2
                 /\ Appended[1].level = "CRITICAL"
                 /\ Appended[1].message[1] = <<"Test failed with exception: ", ThisCall.arg[1][1].type,
                                               ": ", ThisCall.arg[1][1].value>>
            ELSE Len(Appended) = 1]_vars

C18_Witness ==
    /\ Len(calls) >= 2
    /\ Last(calls).op = "__exit__"
    /\ Last(calls).arg[1] # None
    /\ Last(calls).n >= 1
    /\ Len(log_entries) = Last(calls).n + 2
    /\ log_entries[Len(log_entries) - 1].level = "CRITICAL"
    /\ Last(log_entries).level = "INFO"

\* the messages of the entries a report of the given format holds, in the
\* report's order
ReportMessages(content, format) ==
    CASE format = "json" -> [i \in 1..Len(content.log_entries) |-> content.log_entries[i].message]
      [] format = "csv" -> [i \in 1..(Len(content) - 1) |-> content[i + 1][6]]
      [] OTHER -> LET lines == SelectSeq(content, LAMBDA line : Len(line) = 7)
                  IN [i \in 1..Len(lines) |-> lines[i][7]]

\* the call made in this step wrote a complete report of the given format and
\* returned its path
WroteReport(format) ==
    /\ ret'.kind = "return"
    /\ ret'.value = ThisCall.arg[1]
    /\ ThisCall.arg[1] \in DOMAIN fs'.files
    /\ ReportMessages(fs'.files[ThisCall.arg[1]], format)
          = [i \in 1..Len(log_entries) |-> log_entries[i].message]

\* C19, as claimed: export_logs_to_file accepts json, text and csv in any
\* letter case, writes a complete report with every stored entry in order to
\* the path and returns the path.
C19_ExportAsClaimed ==
    [][/\ CalledOp("export_logs_to_file")
       /\ ThisCall.arg[1][1] \notin UnwritableRoots
       /\ lower(ThisCall.arg[2]) \in {"json", "text", "csv"}
       => WroteReport(lower(ThisCall.arg[2]))]_vars

\* C19, amended: export_logs_to_file accepts json, txt and csv in any letter
\* case and, the path being writable, writes a complete report with every
\* stored entry in order to the path and returns the path.
C19_Export ==
    [][/\ CalledOp("export_logs_to_file")
       /\ ThisCall.arg[1][1] \notin UnwritableRoots
       /\ lower(ThisCall.arg[2]) \in {"json", "txt", "csv"}
       => WroteReport(lower(ThisCall.arg[2]))]_vars

C19_Witness ==
    /\ Len(calls) = 3
    /\ Last(calls).op = "export_logs_to_file"
    /\ Last(calls).arg = <<WritablePath, "TXT">>
    /\ ret = Returned(WritablePath)
    /\ Len(log_entries) = 2
    /\ log_entries[2].extra_data = SampleExtra
    /\ Len(fs.files[WritablePath]) = 8

\* C20: export_logs_to_file with a format string outside the recognized ones
\* raises a usage error and writes no file.
C20_UnknownFormatFails ==
    [][/\ CalledOp("export_logs_to_file")
       /\ lower(ThisCall.arg[2]) \notin {"json", "txt", "text", "csv"}
       => /\ ret'.kind = "raise"
          /\ fs'.files = fs.files]_vars

\* the last call exported the entries in the given format and returned
Exported(format) ==
    /\ calls # << >>
    /\ Last(calls).op = "export_logs_to_file"
    /\ lower(Last(calls).arg[2]) = format
    /\ ret.kind = "return"

\* the report the last call wrote
Report == fs.files[Last(calls).arg[1]]

\* json.load of what json.dump wrote for an Optional[str]
json_load_optional(value) == IF value = JsonNull THEN None ELSE Some(value.value)

\* json.load of a value of a JSON object: an array becomes a list
json_load_value(key, value) == IF key \in TupleKeys THEN [list |-> value.array] ELSE value

\* json.load of the JSON report: the summary and the entries as Python values
json_load(content) ==
    [test_summary |-> [content.test_summary EXCEPT !.current_step = json_load_optional(@)],
     log_entries |-> [i \in 1..Len(content.log_entries) |->
                        [content.log_entries[i] EXCEPT
                            !.step_name = json_load_optional(@),
                            !.extra_data = [key \in DOMAIN @ |-> json_load_value(key, @[key])]]]]

\* C21: the JSON report parsed back has a summary whose total_log_entries is
\* the number of stored entries and an entry list of the same length and order
\* whose entries equal the stored entries field for field, whatever the entries
\* hold.
C21_JsonRoundTrip ==
    Exported("json") =>
        LET back == json_load(Report)
        IN /\ back.test_summary.total_log_entries = Len(log_entries)
           /\ Len(back.log_entries) = Len(log_entries)
           /\ \A i \in 1..Len(log_entries) : back.log_entries[i] = log_entries[i]

\* C22: the CSV report is the header row followed by one row per stored
\* entry, in order; in each row the Step Name cell is the entry's step, or the
\* empty string when no step was active, and the Extra Data cell is the JSON
\* text of extra_data when it is non-empty and the empty string when it is
\* empty.
C22_CsvRows ==
    Exported("csv") =>
        /\ Len(Report) = Len(log_entries) + 1
        /\ Report[1] = CsvHeader
        /\ \A i \in 1..Len(log_entries) :
              LET row == Report[i + 1]
                  entry == log_entries[i]
              IN /\ Len(row) = 7
                 /\ row[1] = entry.timestamp
                 /\ row[2] = entry.level
                 /\ row[3] = entry.test_name
                 /\ row[4] = entry.caller_info
                 /\ row[5] = IF entry.step_name = None THEN "" ELSE entry.step_name[1]
                 /\ row[6] = entry.message
                 /\ IF entry.extra_data = EmptyDict
                    THEN row[7] = ""
                    ELSE row[7] = json_dumps(entry.extra_data)

C22_Witness ==
    /\ Exported("csv")
    /\ Len(log_entries) = 2
    /\ log_entries[1].step_name = None
    /\ log_entries[1].extra_data = SampleExtra
    /\ log_entries[2].step_name = Some("S")
    /\ log_entries[2].extra_data = EmptyDict
    /\ Len(Report) = 3
    /\ Report[2][5] = ""
    /\ Report[2][7] = json_dumps(SampleExtra)
    /\ Report[3][5] = "S"
    /\ Report[3][7] = ""

\* the line of an entry in the text report, as the report is said to hold it:
\* with the prefix "[step_name] " when a step was active for the entry
TxtLine(entry) ==
    <<entry.timestamp, " - ", entry.level, <<" (", entry.caller_info, ")">>, " - ",
      IF entry.step_name # None THEN <<"[", entry.step_name[1], "] ">> ELSE << >>,
      entry.message>>

\* the lines of an entry: its line, the indented extra-data line when its
\* extra_data is non-empty, and a blank line
TxtLines(entry) ==
    <<TxtLine(entry)>>
    \o (IF entry.extra_data # EmptyDict THEN <<<<"    Extra Data: ", entry.extra_data>>>> ELSE << >>)
    \o << << >> >>

\* C23: the text report holds the header line with the test name and then,
\* for each stored entry in order, the line "timestamp - level (caller_info) -
\* [step_name] message", the prefix "[step_name] " being there exactly when a
\* step was active for the entry, the indented extra-data line exactly when
\* extra_data is non-empty, and a blank line.
C23_TxtReport ==
    Exported("txt") =>
        /\ Report[1] = <<"Test Log Report: ", test_name>>
        /\ SubSeq(Report, 4, Len(Report))
              = Flatten([i \in 1..Len(log_entries) |-> TxtLines(log_entries[i])])

\* the provenance of the frame that calls the recorder
CallerFrame == <<Last(CallerStack[1].path), CallerStack[1].lineno>>

\* C24: a logging call or step transition returns, whether or not the stack
\* can be inspected and the stream written: the entry is appended with its
\* level, message and step, with the provenance "unknown:0" when inspect.stack()
\* raises or the stack is too shallow, and an emitter returns the entry it
\* stored even when nothing could be written to the console.
C24_NeverRaises ==
    [][Called /\ ThisCall.op \in {"info", "error", "_log", "set_current_step", "clear_current_step"} =>
         /\ ret'.kind = "return"
         /\ IsPrefix(log_entries, log_entries')
         /\ Len(Appended) = IF ThisCall.op = "clear_current_step" /\ ~Truthy(current_step) THEN 0 ELSE 1
         /\ \A i \in 1..Len(Appended) :
               /\ Appended[i].caller_info =
                     IF ThisCall.env.stack = NoStack \/ ThisCall.op = "_log"
                     THEN <<"unknown", 0>> ELSE CallerFrame
               /\ Appended[i].step_name =
                     IF ThisCall.op = "set_current_step" THEN Some(ThisCall.arg[1]) ELSE current_step
               /\ Appended[i].level =
                     CASE ThisCall.op = "error" -> "ERROR"
                       [] ThisCall.op = "_log" -> ThisCall.arg[1]
                       [] OTHER -> "INFO"
               /\ Appended[i].message =
                     CASE ThisCall.op \in {"info", "error"} -> <<ThisCall.arg[1]>>
                       [] ThisCall.op = "_log" -> <<ThisCall.arg[2]>>
                       [] ThisCall.op = "set_current_step" -> StartMarker(ThisCall.arg[1])
                       [] OTHER -> EndMarker(current_step[1])
         /\ ThisCall.op \in {"info", "error", "_log"} => ret'.value = Appended[1]
         /\ ~ThisCall.env.stream => console' = console]_vars

C24_Witness ==
    /\ Len(calls) = 2
    /\ calls[1].op = "_log"
    /\ calls[1].env = NormalEnv
    /\ log_entries[1].caller_info = <<"unknown", 0>>
    /\ calls[2].op = "error"
    /\ calls[2].env = [stack |-> NoStack, stream |-> FALSE]
    /\ Len(log_entries) = 2
    /\ log_entries[2].caller_info = <<"unknown", 0>>
    /\ log_entries[2].level = "ERROR"
    /\ ret = Returned(log_entries[2])
    /\ Len(console) = 1

\* C25: step_failed(step_name, message, error_details), called with a third
\* argument as the exception handlers of the example tests call it, appends one
\* ERROR entry and returns, so that the handler goes on.
C25_ExampleHandler ==
    [][CalledOp("step_failed") /\ Len(ThisCall.arg) = 3 =>
         /\ ret'.kind = "return"
         /\ IsPrefix(log_entries, log_entries')
         /\ Len(Appended) = 1
         /\ Appended[1].level = "ERROR"]_vars

\* C26: on a recorder with console output every appended entry, whatever its
\* level, writes exactly one line with its provenance, level and message; on a
\* recorder without console output no logging call writes a line.
C26_Console ==
    [][Called /\ ThisCall.op \in EmitterOps \cup {"set_current_step"} =>
         IF enable_console
         THEN /\ Len(console') = Len(console) + Len(Appended)
              /\ IsPrefix(console, console')
              /\ \A i \in 1..Len(Appended) :
                    LET line == console'[Len(console) + i]
                    IN /\ line[3][4] = Appended[i].caller_info
                       /\ line[5] = Appended[i].level
                       /\ line[7] = Appended[i].message
         ELSE console' = console]_vars

\* C27: the caller_info of every stored entry is the frame of the code that
\* called the public method of the recorder, never a line of the recorder's
\* own file, the entries appended on scope exit included.
C27_CallerOutside ==
    \A i \in 1..Len(log_entries) :
        /\ log_entries[i].caller_info[1] # Last(RecorderFile)
        /\ log_entries[i].caller_info = CallerFrame

\* C28: while the clock never goes backwards, the timestamps of the stored
\* entries are non-decreasing in the order of the entries, and every stored
\* entry carries the test name the recorder was constructed with.
C28_Monotonic ==
    /\ \A i \in 1..Len(log_entries) : \A j \in i..Len(log_entries) :
          log_entries[i].timestamp <= log_entries[j].timestamp
    /\ \A i \in 1..Len(log_entries) : log_entries[i].test_name = test_name

C28_Witness ==
    /\ Len(log_entries) >= 3
    /\ log_entries[1].timestamp < log_entries[2].timestamp
    /\ log_entries[2].timestamp = log_entries[3].timestamp
    /\ Last(calls).op = "clear_current_step"
    /\ Last(log_entries).test_name = "t1"

\* the pieces of the summary message __exit__ logs
SummaryMessage(entry) == entry.message[1]

\* C29: the summary entry appended on scope exit reports the entries stored
\* before it, the CRITICAL entry of the fault included and the summary entry
\* itself excluded; its error count is the number of ERROR and CRITICAL entries
\* among them, so at least 1 after a fault; and __exit__ returns None, so the
\* fault is not suppressed.
C29_SummaryFigures ==
    [][CalledOp("__exit__") =>
         LET summary == SummaryMessage(Last(log_entries'))
             before == SubSeq(log_entries', 1, Len(log_entries') - 1)
         IN /\ summary[1] = "Test completed. Duration: "
            /\ summary[4] = Len(before)
            /\ summary[4] = Len(log_entries) + (IF ThisCall.arg[1] # None THEN 1 ELSE 0)
            /\ summary[6] = Len(SelectSeq(before, LAMBDA entry : entry.level \in {"ERROR", "CRITICAL"}))
            /\ ThisCall.arg[1] # None => summary[6] >= 1
            /\ ret' = Returned(None)]_vars

C29_Witness ==
    /\ Len(calls) = 3
    /\ Last(calls).op = "__exit__"
    /\ Last(calls).arg[1] # None
    /\ Len(log_entries) = 4
    /\ log_entries[2].level = "ERROR"
    /\ log_entries[3].level = "CRITICAL"
    /\ SummaryMessage(log_entries[4])[4] = 3
    /\ SummaryMessage(log_entries[4])[6] = 2
    /\ ret = Returned(None)

\* C30: with a recorder given, the outcome of every check of the assertion
\* helper has been recorded with log_assertion when its assert statement runs,
\* so that a method that ended with AssertionError has left the failure-marked
\* ERROR entry of the failed check as the last entry; with no recorder given
\* the checks run and nothing is logged.
C30_LogBeforeAssert ==
    /\ helper.logger /\ helper.todo # << >> /\ Head(helper.todo).stmt = "assert" =>
          /\ calls # << >>
          /\ Last(calls).op = "log_assertion"
          /\ Last(calls).arg[1] = Head(helper.todo).message
          /\ Last(calls).arg[2] = Head(helper.todo).passed
          /\ Last(log_entries).level = IF Head(helper.todo).passed THEN "INFO" ELSE "ERROR"
    /\ helper.logger /\ helper.raised =>
          /\ Last(log_entries).level = "ERROR"
          /\ Last(log_entries).message[1] = "FAILED"
    /\ ~helper.logger => calls = << >>

====
